---- MODULE Spec2Model ----
(***************************************************************************)
(* Aircraft maintenance forecast simulator: the greedy allocator           *)
(* (src/src/scheduler.py), the risk classifier (src/src/risk.py), the      *)
(* capacity setting of the entry point run() and the report writing of     *)
(* main() (src/src/main.py, src/src/io_utils.py).                          *)
(*                                                                         *)
(* Dates are day numbers relative to the forecast start date (day 0).      *)
(* Labor hours are whole units: every sum and difference the code forms is *)
(* then exact, and the code's tolerance of 1e-9 is below one unit.         *)
(***************************************************************************)
EXTENDS Integers, Sequences, FiniteSets, TLC

---------------------------------------------------------------------------
(* Bounds of the model *)

MaxTasks == 2
MaxLabor == 2
MaxCap == 2
MaxWindow == 1
Horizon == 1

(* Input domains *)

Bases == {"ATL", "DFW"}
Criticalities == {"High", "Medium", "Low", "Critical"}
DueDates == (0 - 1) .. Horizon
WindowDays == 0 .. MaxWindow
LaborHours == 0 .. MaxLabor
DailyCaps == 1 .. MaxCap

(* pd.NaT, the unset scheduled date *)
NaT == 0 - 1000

Min(a, b) == IF a <= b THEN a ELSE b

---------------------------------------------------------------------------
(* State *)

VARIABLES
    pc,             \* position of the run
    forecast_df,    \* the forecast handed to schedule_tasks_greedy
    df,             \* the forecast in processing order
    cap,            \* slot (base, date) -> capacity, used and remaining hours
    ti,             \* index in df of the entry being processed
    d,              \* the window day the scan is at
    allocated,      \* hours allocated to the current entry so far
    allocations,    \* (day, hours) pairs of the current entry
    scheduled_rows, \* the allocation results emitted so far
    today,          \* the as-of date of the risk classifier
    risk_df,        \* the risk register
    fleet_df,       \* the fleet table
    task_df,        \* the task-definition table
    reports,        \* the report files written by save_report
    capacity_multiplier,  \* the multiplier handed to run(), in hundredths
    capacity_per_day,     \* the daily budget run() computes
    cfg                   \* the configuration the builders are called with

\* the state of the entry points run() and main()
entryVars ==
    <<fleet_df, task_df, reports, capacity_multiplier, capacity_per_day, cfg>>

\* ForecastConfig of simulator.py
ForecastConfig(start_date, horizon_days, seed_history) ==
    [start_date |-> start_date, horizon_days |-> horizon_days,
     seed_history |-> seed_history]

\* the forecast configuration of main(): seeded, from day 0, over the horizon
MainForecastConfig == ForecastConfig(0, Horizon, TRUE)

vars == <<pc, forecast_df, df, cap, ti, d, allocated, allocations,
          scheduled_rows, today, risk_df, entryVars>>

---------------------------------------------------------------------------
(* Capacity calendar *)

\* mutant of Daterange: the end day is left out
DaterangeExclusive(start, end) == start .. (end - 1)

\* _daterange(start, end): the days start .. end, both included
Daterange(start, end) == start .. end

\* build_capacity_calendar: one slot per base and day of the horizon
build_capacity_calendar(bases, start_date, horizon_days, labor_hours_per_day) ==
    [k \in bases \X Daterange(start_date, start_date + horizon_days) |->
        [capacity_labor_hours |-> labor_hours_per_day, used_labor_hours |-> 0]]

---------------------------------------------------------------------------
(* Greedy allocator *)

\* mutant of crit_rank: the labels ordered as text
crit_rank_text(x) ==
    CASE x = "Critical" -> 0
      [] x = "High" -> 1
      [] x = "Low" -> 2
      [] OTHER -> 3

\* crit_rank.get(x, 3)
crit_rank(x) ==
    CASE x = "High" -> 0
      [] x = "Medium" -> 1
      [] x = "Low" -> 2
      [] OTHER -> 3

\* sort_values(by = [due_date, crit_rank, labor_hours], ascending = [T, T, F]):
\* a comes strictly before b
SortBefore(a, b) ==
    \/ a.due_date < b.due_date
    \/ /\ a.due_date = b.due_date
       /\ crit_rank(a.criticality) < crit_rank(b.criticality)
    \/ /\ a.due_date = b.due_date
       /\ crit_rank(a.criticality) = crit_rank(b.criticality)
       /\ a.labor_hours > b.labor_hours

\* the stable sort: an entry goes behind every entry that does not come
\* strictly after it, so equal keys keep the order of the input
RECURSIVE InsertSorted(_, _)
InsertSorted(s, e) ==
    IF s = <<>> THEN <<e>>
    ELSE IF SortBefore(e, Head(s)) THEN <<e>> \o s
    ELSE <<Head(s)>> \o InsertSorted(Tail(s), e)

RECURSIVE SortForecast(_)
SortForecast(s) ==
    IF s = <<>> THEN <<>>
    ELSE InsertSorted(SortForecast(SubSeq(s, 1, Len(s) - 1)), s[Len(s)])

\* cap["remaining_labor_hours"] = capacity_labor_hours - used_labor_hours
WithRemaining(c) ==
    [k \in DOMAIN c |->
        [capacity_labor_hours |-> c[k].capacity_labor_hours,
         used_labor_hours |-> c[k].used_labor_hours,
         remaining_labor_hours |->
             c[k].capacity_labor_hours - c[k].used_labor_hours]]

\* mutant of MeetsRequirement: any allocation at all counts as complete
MeetsAnyAllocation(alloc, labor_needed) == alloc > 0

\* allocated >= labor_needed - 1e-9, in whole units
MeetsRequirement(alloc, labor_needed) == alloc >= labor_needed

\* mutant of WindowStart: the window opens one day early
WindowStartEarly(task) == task.due_date - task.window_days - 1

WindowStart(task) == task.due_date - task.window_days

\* the scan of an entry starts at the first day of its window
BeginTask(i, task) ==
    /\ ti' = i
    /\ d' = WindowStart(task)
    /\ allocated' = 0
    /\ allocations' = <<>>
    /\ pc' = "scan"

\* lines 56-74: sort the forecast, add the remaining hours, enter the loop
SortAndIndex ==
    /\ pc = "start"
    /\ df' = SortForecast(forecast_df)
    /\ cap' = WithRemaining(cap)
    /\ IF Len(forecast_df) = 0
       THEN /\ pc' = "return"
            /\ UNCHANGED <<ti, d, allocated, allocations>>
       ELSE BeginTask(1, SortForecast(forecast_df)[1])
    /\ UNCHANGED <<forecast_df, scheduled_rows, today, risk_df,
                   entryVars>>

\* mutant of NextDay: the scan goes on to the day after the due date
NextDayPastDue(task) ==
    IF d = task.due_date + 1
    THEN /\ pc' = "finish"
         /\ d' = d
    ELSE /\ pc' = "scan"
         /\ d' = d + 1

\* the scan moves to the next window day, or leaves the loop after the due date
NextDay(task) ==
    IF d = task.due_date
    THEN /\ pc' = "finish"
         /\ d' = d
    ELSE /\ pc' = "scan"
         /\ d' = d + 1

\* mutants of Take: at most one hour is taken from a day; the slot's
\* remaining hours are not looked at; the hours still needed are not looked at
TakeOneHour(remaining, labor_needed, alloc) ==
    Min(1, Min(remaining, labor_needed - alloc))

TakeIgnoringRemaining(remaining, labor_needed, alloc) == labor_needed - alloc

TakeAllRemaining(remaining, labor_needed, alloc) == remaining

\* the hours taken from a slot with `remaining` hours left
Take(remaining, labor_needed, alloc) == Min(remaining, labor_needed - alloc)

\* lines 88-105: one day of the window
AllocDay ==
    /\ pc = "scan"
    /\ LET task == df[ti]
           key == <<task.base, d>>
       IN  IF key \notin DOMAIN cap
           THEN /\ NextDay(task)
                /\ UNCHANGED <<cap, allocated, allocations>>
           ELSE IF cap[key].remaining_labor_hours <= 0
           THEN /\ NextDay(task)
                /\ UNCHANGED <<cap, allocated, allocations>>
           ELSE LET take == Take(cap[key].remaining_labor_hours,
                                 task.labor_hours, allocated)
                    got == IF take > 0 THEN take ELSE 0
                IN  /\ cap' = IF take > 0
                              THEN [cap EXCEPT
                                     ![key].used_labor_hours = @ + take,
                                     ![key].remaining_labor_hours = @ - take]
                              ELSE cap
                    /\ allocated' = allocated + got
                    /\ allocations' = IF take > 0
                                      THEN Append(allocations, <<d, take>>)
                                      ELSE allocations
                    /\ IF MeetsRequirement(allocated + got, task.labor_hours)
                       THEN /\ pc' = "finish"
                            /\ d' = d
                       ELSE NextDay(task)
    /\ UNCHANGED <<forecast_df, df, ti, scheduled_rows, today, risk_df,
                   entryVars>>

\* mutant of Result: an unscheduled entry is reported with no hours
ResultDroppingPartial(task, is_scheduled, date, alloc) ==
    [id |-> task.id, base |-> task.base, due_date |-> task.due_date,
     window_days |-> task.window_days, labor_hours |-> task.labor_hours,
     criticality |-> task.criticality,
     scheduled |-> is_scheduled, scheduled_date |-> date,
     scheduled_base |-> task.base,
     allocated_labor_hours |-> IF is_scheduled THEN alloc ELSE 0]

\* the allocation result of an entry
Result(task, is_scheduled, date, alloc) ==
    [id |-> task.id, base |-> task.base, due_date |-> task.due_date,
     window_days |-> task.window_days, labor_hours |-> task.labor_hours,
     criticality |-> task.criticality,
     scheduled |-> is_scheduled, scheduled_date |-> date,
     scheduled_base |-> task.base, allocated_labor_hours |-> alloc]

\* mutant of LastAllocationDay: the day of the first allocation made
FirstAllocationDay(allocs) == allocs[1][1]

\* line 109: allocations[-1][0], the day of the last allocation made
LastAllocationDay(allocs) == allocs[Len(allocs)][1]

\* lines 107-128: emit the result of the entry; allocations[-1] of an empty
\* list raises IndexError
FinishTask ==
    /\ pc = "finish"
    /\ LET task == df[ti]
       IN  IF MeetsRequirement(allocated, task.labor_hours)
           THEN IF allocations = <<>>
                THEN /\ pc' = "IndexError"
                     /\ UNCHANGED <<ti, d, allocated, allocations, scheduled_rows>>
                ELSE /\ scheduled_rows' = Append(scheduled_rows,
                            Result(task, TRUE,
                                   LastAllocationDay(allocations), allocated))
                     /\ IF ti = Len(df)
                        THEN /\ pc' = "return"
                             /\ UNCHANGED <<ti, d, allocated, allocations>>
                        ELSE BeginTask(ti + 1, df[ti + 1])
           ELSE /\ scheduled_rows' = Append(scheduled_rows,
                       Result(task, FALSE, NaT, allocated))
                /\ IF ti = Len(df)
                   THEN /\ pc' = "return"
                        /\ UNCHANGED <<ti, d, allocated, allocations>>
                   ELSE BeginTask(ti + 1, df[ti + 1])
    /\ UNCHANGED <<forecast_df, df, cap, today, risk_df, entryVars>>

\* mutant of DropRemaining: the calendar as it was handed in is returned
DropRemainingAndUsed(c) ==
    [k \in DOMAIN c |->
        [capacity_labor_hours |-> c[k].capacity_labor_hours,
         used_labor_hours |-> 0]]

\* capacity_updated = cap.drop(columns = ["remaining_labor_hours"])
DropRemaining(c) ==
    [k \in DOMAIN c |->
        [capacity_labor_hours |-> c[k].capacity_labor_hours,
         used_labor_hours |-> c[k].used_labor_hours]]

\* lines 130-132: return the results and the updated calendar
ReturnResults ==
    /\ pc = "return"
    /\ cap' = DropRemaining(cap)
    /\ pc' = "done"
    /\ UNCHANGED <<forecast_df, df, ti, d, allocated, allocations,
                   scheduled_rows, today, risk_df, entryVars>>

---------------------------------------------------------------------------
(* Risk classifier *)

\* line 31: not scheduled
IsMissedWindow(r) == ~r.scheduled

\* mutant of IsCapacityShortfall: a full allocation counts as a shortfall
IsCapacityShortfallOrFull(r) == r.allocated_labor_hours <= r.labor_hours

\* line 48: allocated + 1e-9 < labor, in whole units
IsCapacityShortfall(r) == r.allocated_labor_hours < r.labor_hours

\* mutant of IsLateSchedule: the scheduled flag is not looked at
IsLateIgnoringFlag(r) ==
    /\ r.scheduled_date # NaT
    /\ r.scheduled_date > r.due_date

\* line 65: scheduled and pd.notna(sched) and sched > due
IsLateSchedule(r) ==
    /\ r.scheduled
    /\ r.scheduled_date # NaT
    /\ r.scheduled_date > r.due_date

\* mutants of IsOverdue: whether the entry was scheduled is not looked at;
\* an entry due on the as-of date counts as overdue
IsOverdueIgnoringSchedule(r, asof) == r.due_date < asof

IsOverdueOnOrBefore(r, asof) ==
    /\ r.due_date <= asof
    /\ \/ ~r.scheduled
       \/ r.scheduled_date # NaT /\ r.scheduled_date > r.due_date

\* line 82: due < today and (not scheduled or (pd.notna(sched) and sched > due))
IsOverdue(r, asof) ==
    /\ r.due_date < asof
    /\ \/ ~r.scheduled
       \/ r.scheduled_date # NaT /\ r.scheduled_date > r.due_date

RiskEntry(r, type, date) ==
    [risk_type |-> type, severity |-> r.criticality, id |-> r.id,
     base |-> r.base, due_date |-> r.due_date, scheduled_date |-> date]

\* lines 30-96: the entries of one allocation result, in the order appended
RowRisks(r, asof) ==
    (IF IsMissedWindow(r)
     THEN <<RiskEntry(r, "MISSED_WINDOW", NaT)>> ELSE <<>>)
    \o (IF IsCapacityShortfall(r)
        THEN <<RiskEntry(r, "CAPACITY_SHORTFALL",
                         IF r.scheduled THEN r.scheduled_date ELSE NaT)>>
        ELSE <<>>)
    \o (IF IsLateSchedule(r)
        THEN <<RiskEntry(r, "LATE_SCHEDULE", r.scheduled_date)>> ELSE <<>>)
    \o (IF IsOverdue(r, asof)
        THEN <<RiskEntry(r, "OVERDUE",
                         IF r.scheduled THEN r.scheduled_date ELSE NaT)>>
        ELSE <<>>)

RECURSIVE AllRisks(_, _)
AllRisks(rows, asof) ==
    IF rows = <<>> THEN <<>>
    ELSE RowRisks(Head(rows), asof) \o AllRisks(Tail(rows), asof)

\* the order of the severity labels as text, which sort_values compares
SeverityTextOrder(x) ==
    CASE x = "Critical" -> 0
      [] x = "High" -> 1
      [] x = "Low" -> 2
      [] x = "Medium" -> 3

\* the order of the risk types as text
RiskTypeTextOrder(x) ==
    CASE x = "CAPACITY_SHORTFALL" -> 0
      [] x = "LATE_SCHEDULE" -> 1
      [] x = "MISSED_WINDOW" -> 2
      [] x = "OVERDUE" -> 3

\* line 100: sort_values(by = [severity, risk_type, due_date]): a comes
\* strictly before b
RiskBefore(a, b) ==
    \/ SeverityTextOrder(a.severity) < SeverityTextOrder(b.severity)
    \/ /\ a.severity = b.severity
       /\ RiskTypeTextOrder(a.risk_type) < RiskTypeTextOrder(b.risk_type)
    \/ /\ a.severity = b.severity
       /\ a.risk_type = b.risk_type
       /\ a.due_date < b.due_date

RECURSIVE InsertRisk(_, _)
InsertRisk(s, e) ==
    IF s = <<>> THEN <<e>>
    ELSE IF RiskBefore(e, Head(s)) THEN <<e>> \o s
    ELSE <<Head(s)>> \o InsertRisk(Tail(s), e)

RECURSIVE SortRisks(_)
SortRisks(s) ==
    IF s = <<>> THEN <<>>
    ELSE InsertRisk(SortRisks(SubSeq(s, 1, Len(s) - 1)), s[Len(s)])

build_risk_register(rows, asof) == SortRisks(AllRisks(rows, asof))

Todays == 0 .. (Horizon + 1)

\* build_risk_register applied to the allocation results, as of any date.
\* A table of no results is pd.DataFrame([]), which has no columns: line 18
\* raises KeyError on it.
BuildRiskRegister ==
    /\ pc = "done"
    /\ \E t \in Todays :
        /\ today' = t
        /\ IF scheduled_rows = <<>>
           THEN /\ pc' = "KeyError"
                /\ risk_df' = risk_df
           ELSE /\ pc' = "risk"
                /\ risk_df' = build_risk_register(scheduled_rows, t)
    /\ UNCHANGED <<forecast_df, df, cap, ti, d, allocated, allocations,
                   scheduled_rows, entryVars>>

---------------------------------------------------------------------------
(* Specification of the allocator *)

EntryFields ==
    [base : Bases, due_date : DueDates, window_days : WindowDays,
     labor_hours : LaborHours, criticality : Criticalities]

\* a forecast: entry i is identified by its (aircraft, task) key i
WithIds(f) ==
    [i \in DOMAIN f |->
        [id |-> i, base |-> f[i].base, due_date |-> f[i].due_date,
         window_days |-> f[i].window_days, labor_hours |-> f[i].labor_hours,
         criticality |-> f[i].criticality]]

Init ==
    /\ pc = "start"
    /\ \E n \in 0 .. MaxTasks : \E f \in [1 .. n -> EntryFields] :
           forecast_df = WithIds(f)
    /\ \E c \in DailyCaps : cap = build_capacity_calendar(Bases, 0, Horizon, c)
    /\ df = <<>>
    /\ ti = 0
    /\ d = 0
    /\ allocated = 0
    /\ allocations = <<>>
    /\ scheduled_rows = <<>>
    /\ today = 0
    /\ risk_df = <<>>
    /\ fleet_df = <<>>
    /\ task_df = <<>>
    /\ reports = {}
    /\ capacity_multiplier = 0
    /\ capacity_per_day = 0
    /\ cfg = MainForecastConfig

Next ==
    \/ SortAndIndex
    \/ AllocDay
    \/ FinishTask
    \/ ReturnResults
    \/ BuildRiskRegister

Spec == Init /\ [][Next]_vars

---------------------------------------------------------------------------
(* Specification of the risk classifier alone, over any allocation results *)

ResultDates == {NaT} \cup (0 .. (Horizon + 1))

AnyResults ==
    [base : {"ATL"}, due_date : 0 .. Horizon, window_days : {0},
     labor_hours : 1 .. MaxLabor, criticality : Criticalities,
     scheduled : BOOLEAN, scheduled_date : ResultDates,
     short : BOOLEAN]

\* a result with key i; `short` tells whether its allocation fell short
AsResult(i, x) ==
    [id |-> i, base |-> x.base, due_date |-> x.due_date,
     window_days |-> x.window_days, labor_hours |-> x.labor_hours,
     criticality |-> x.criticality,
     scheduled |-> x.scheduled, scheduled_date |-> x.scheduled_date,
     scheduled_base |-> x.base,
     allocated_labor_hours |-> IF x.short THEN 0 ELSE x.labor_hours]

InitRisk ==
    /\ pc = "done"
    /\ \E n \in 1 .. MaxTasks : \E f \in [1 .. n -> AnyResults] :
           scheduled_rows = [i \in 1 .. n |-> AsResult(i, f[i])]
    /\ forecast_df = <<>>
    /\ df = <<>>
    /\ cap = <<>>
    /\ ti = 0
    /\ d = 0
    /\ allocated = 0
    /\ allocations = <<>>
    /\ today = 0
    /\ risk_df = <<>>
    /\ fleet_df = <<>>
    /\ task_df = <<>>
    /\ reports = {}
    /\ capacity_multiplier = 0
    /\ capacity_per_day = 0
    /\ cfg = MainForecastConfig

NextRisk == BuildRiskRegister

SpecRisk == InitRisk /\ [][NextRisk]_vars

---------------------------------------------------------------------------
(* The entry point run() *)

base_capacity_per_day == 160

\* int(x) of Python for the quotient a / b, b > 0: truncation towards zero
TruncInt(a, b) == IF a >= 0 THEN a \div b ELSE 0 - ((0 - a) \div b)

\* lines 32-36 of main.py, the multiplier m given in hundredths
CapacityPerDay(m) ==
    IF m < 50 THEN 40 ELSE TruncInt(base_capacity_per_day * m, 100)

\* run(): computes the budget and returns the report paths; it calls nothing
\* and writes nothing
Run ==
    /\ pc = "run"
    /\ capacity_per_day' = CapacityPerDay(capacity_multiplier)
    /\ pc' = "run_done"
    /\ UNCHANGED <<forecast_df, df, cap, ti, d, allocated, allocations,
                   scheduled_rows, today, risk_df, fleet_df, task_df,
                   reports, capacity_multiplier, cfg>>

\* the multipliers, in hundredths: -1.00 .. 2.00
Multipliers == (0 - 100) .. 200

InitRun ==
    /\ pc = "run"
    /\ capacity_multiplier \in Multipliers
    /\ capacity_per_day = 0
    /\ cfg = MainForecastConfig
    /\ forecast_df = <<>>
    /\ df = <<>>
    /\ cap = <<>>
    /\ ti = 0
    /\ d = 0
    /\ allocated = 0
    /\ allocations = <<>>
    /\ scheduled_rows = <<>>
    /\ today = 0
    /\ risk_df = <<>>
    /\ fleet_df = <<>>
    /\ task_df = <<>>
    /\ reports = {}

NextRun == Run

SpecRun == InitRun /\ [][NextRun]_vars

---------------------------------------------------------------------------
(* Forecast builder *)

Max(a, b) == IF a >= b THEN a ELSE b

\* mutant of seed_last_done_date: the step back is not kept to a day or more
seed_last_done_unclamped(start_date, interval_days, offset_days) ==
    start_date - (interval_days - offset_days)

\* _seed_last_done_date
seed_last_done_date(start_date, interval_days, offset_days) ==
    start_date - Max(1, interval_days - offset_days)

\* lines 53-60 of simulator.py: the due date of task row j for aircraft row i
\* (row labels count from 0)
DueDate(i, j, interval_days, start_date, seed_history) ==
    LET offset == (i * 7 + j * 3) % Max(2, interval_days)
        last_done == IF seed_history
                     THEN seed_last_done_date(start_date, interval_days, offset)
                     ELSE start_date
    IN  last_done + interval_days

\* lines 64-76: the forecast row of aircraft row i and task row j
ForecastRow(i, j, ac, t, due) ==
    [id |-> <<i, j>>, base |-> ac.base, due_date |-> due,
     window_days |-> t.window_days, labor_hours |-> t.labor_hours,
     criticality |-> t.criticality]

\* line 63: an entry is kept when due on or before the end of the horizon
WithinHorizonStrict(due, end_date) == due < end_date
WithinHorizon(due, end_date) == due <= end_date

\* lines 40-77: the rows appended for the aircraft rows i.., task rows j..
RECURSIVE ForecastRows(_, _, _, _, _, _, _)
ForecastRows(fleet, tasks, i, j, start_date, end_date, seed_history) ==
    IF i >= Len(fleet) THEN <<>>
    ELSE IF j >= Len(tasks)
    THEN ForecastRows(fleet, tasks, i + 1, 0, start_date, end_date, seed_history)
    ELSE LET ac == fleet[i + 1]
             t == tasks[j + 1]
             due == DueDate(i, j, t.interval_days, start_date, seed_history)
             rest == ForecastRows(fleet, tasks, i, j + 1, start_date, end_date,
                                  seed_history)
         IN  IF t.fleet_type = ac.fleet_type /\ WithinHorizon(due, end_date)
             THEN <<ForecastRow(i, j, ac, t, due)>> \o rest
             ELSE rest

\* line 83: sort_values(by = [due_date, criticality]), the label as text
ForecastBefore(a, b) ==
    \/ a.due_date < b.due_date
    \/ /\ a.due_date = b.due_date
       /\ SeverityTextOrder(a.criticality) < SeverityTextOrder(b.criticality)

RECURSIVE InsertForecast(_, _)
InsertForecast(s, e) ==
    IF s = <<>> THEN <<e>>
    ELSE IF ForecastBefore(e, Head(s)) THEN <<e>> \o s
    ELSE <<Head(s)>> \o InsertForecast(Tail(s), e)

RECURSIVE SortBuilt(_)
SortBuilt(s) ==
    IF s = <<>> THEN <<>>
    ELSE InsertForecast(SortBuilt(SubSeq(s, 1, Len(s) - 1)), s[Len(s)])

build_forecast(fleet, tasks, start_date, horizon_days, seed_history) ==
    SortBuilt(ForecastRows(fleet, tasks, 0, 0, start_date,
                           start_date + horizon_days, seed_history))

---------------------------------------------------------------------------
(* The entry point main() *)

\* sorted(fleet_df["base"].unique().tolist()), as the set the calendar is
\* built over
FleetBases(fleet) == {fleet[i].base : i \in DOMAIN fleet}

\* RISK_COLUMNS of save_report
RISK_COLUMNS ==
    <<"risk_type", "aircraft_id", "task_id", "due_date", "scheduled_date",
      "days_late", "details">>

PLAN_COLUMNS ==
    <<"aircraft_id", "fleet_type", "base", "task_id", "task_name",
      "criticality", "labor_hours", "interval_days", "window_days", "due_date",
      "scheduled", "scheduled_date", "scheduled_base", "allocated_labor_hours">>

SUMMARY_COLUMNS ==
    <<"base", "date", "capacity_labor_hours", "used_labor_hours",
      "utilization_pct">>

\* save_report: the file written, by name, header and number of rows; the
\* risk register is always written with RISK_COLUMNS
save_report(name, columns, nrows) ==
    [name |-> name,
     columns |-> IF name = "risk_register.csv" THEN RISK_COLUMNS ELSE columns,
     rows |-> nrows]

\* the daily budget main() configures (labor_hours_per_day = 5), in the
\* scale of the model
MainLaborHoursPerDay == MaxCap

\* main() lines 107-121 with run_simulation lines 93-104: build the forecast
\* (seeded, from day 0); an empty forecast returns at once with two empty
\* tables, otherwise the calendar is built and the allocator entered
MainRunSimulation ==
    /\ pc = "main"
    /\ LET f == build_forecast(fleet_df, task_df, 0, Horizon, TRUE)
       IN  /\ forecast_df' = f
           /\ IF f = <<>>
              THEN /\ cap' = <<>>
                   /\ pc' = "done"
              ELSE /\ cap' = build_capacity_calendar(FleetBases(fleet_df), 0,
                                                     Horizon, MainLaborHoursPerDay)
                   /\ pc' = "start"
    /\ today' = 0
    /\ UNCHANGED <<df, ti, d, allocated, allocations, scheduled_rows, risk_df,
                   entryVars>>

\* main() lines 123-136: nothing is written for an empty plan; otherwise the
\* plan, the capacity summary, the risk register and the chart are written
MainReports ==
    /\ pc = "done"
    /\ IF scheduled_rows = <<>>
       THEN /\ reports' = reports
            /\ risk_df' = risk_df
       ELSE LET risks == build_risk_register(scheduled_rows, today)
            IN  /\ risk_df' = risks
                /\ reports' =
                     {save_report("maintenance_plan.csv", PLAN_COLUMNS,
                                  Len(scheduled_rows)),
                      save_report("capacity_calendar.csv", SUMMARY_COLUMNS,
                                  Cardinality(DOMAIN cap)),
                      save_report("risk_register.csv", <<>>, Len(risks)),
                      save_report("workload_vs_capacity.png", <<>>, 0)}
    /\ pc' = "main_done"
    /\ UNCHANGED <<forecast_df, df, cap, ti, d, allocated, allocations,
                   scheduled_rows, today, fleet_df, task_df,
                   capacity_multiplier, capacity_per_day, cfg>>

MaxAircraft == 2
MaxInterval == 3

FleetTypes == {"A320", "B737"}

Aircraft == [fleet_type : FleetTypes, base : Bases]

TaskDefinitions ==
    [fleet_type : FleetTypes, criticality : Criticalities,
     labor_hours : 1 .. MaxLabor, interval_days : 1 .. MaxInterval,
     window_days : WindowDays]

InitMain ==
    /\ pc = "main"
    /\ \E n \in 0 .. MaxAircraft : fleet_df \in [1 .. n -> Aircraft]
    /\ \E n \in 0 .. MaxTasks : task_df \in [1 .. n -> TaskDefinitions]
    /\ reports = {}
    /\ capacity_multiplier = 0
    /\ capacity_per_day = 0
    /\ cfg = MainForecastConfig
    /\ forecast_df = <<>>
    /\ df = <<>>
    /\ cap = <<>>
    /\ ti = 0
    /\ d = 0
    /\ allocated = 0
    /\ allocations = <<>>
    /\ scheduled_rows = <<>>
    /\ today = 0
    /\ risk_df = <<>>

NextMain ==
    \/ MainRunSimulation
    \/ SortAndIndex
    \/ AllocDay
    \/ FinishTask
    \/ ReturnResults
    \/ MainReports

SpecMain == InitMain /\ [][NextMain]_vars

---------------------------------------------------------------------------
(* Specification of build_forecast alone, over any fleet table, task table
   and configuration *)

\* the aircraft rows: the base plays no part in the forecast
ForecastAircraft == [fleet_type : FleetTypes, base : {"ATL"}]

\* the task rows: an interval of 0 days is a row the loader accepts
ForecastTaskDefinitions ==
    [fleet_type : FleetTypes, criticality : {"High", "Low"},
     labor_hours : {1}, interval_days : 0 .. MaxInterval, window_days : {0}]

ForecastConfigs ==
    {ForecastConfig(s, h, b) : s \in 0 .. 1, h \in 0 .. Horizon, b \in BOOLEAN}

\* build_forecast(fleet_df, task_df, cfg)
BuildForecast ==
    /\ pc = "forecast"
    /\ forecast_df' = build_forecast(fleet_df, task_df, cfg.start_date,
                                     cfg.horizon_days, cfg.seed_history)
    /\ pc' = "forecast_done"
    /\ UNCHANGED <<df, cap, ti, d, allocated, allocations, scheduled_rows,
                   today, risk_df, entryVars>>

InitForecast ==
    /\ pc = "forecast"
    /\ \E n \in 0 .. MaxAircraft : fleet_df \in [1 .. n -> ForecastAircraft]
    /\ \E n \in 0 .. MaxTasks : task_df \in [1 .. n -> ForecastTaskDefinitions]
    /\ cfg \in ForecastConfigs
    /\ reports = {}
    /\ capacity_multiplier = 0
    /\ capacity_per_day = 0
    /\ forecast_df = <<>>
    /\ df = <<>>
    /\ cap = <<>>
    /\ ti = 0
    /\ d = 0
    /\ allocated = 0
    /\ allocations = <<>>
    /\ scheduled_rows = <<>>
    /\ today = 0
    /\ risk_df = <<>>

NextForecast == BuildForecast

SpecForecast == InitForecast /\ [][NextForecast]_vars

---------------------------------------------------------------------------
(* Specification of build_capacity_calendar alone, over any distinct bases,
   start date, horizon and daily budget *)

CalendarArguments ==
    [bases : SUBSET Bases, start_date : (0 - 1) .. 1,
     horizon_days : 0 .. Horizon, labor_hours_per_day : 0 .. MaxCap]

\* build_capacity_calendar(bases, start_date, horizon_days, labor_hours_per_day)
BuildCalendar ==
    /\ pc = "calendar"
    /\ cap' = build_capacity_calendar(cfg.bases, cfg.start_date,
                                      cfg.horizon_days, cfg.labor_hours_per_day)
    /\ pc' = "calendar_done"
    /\ UNCHANGED <<forecast_df, df, ti, d, allocated, allocations,
                   scheduled_rows, today, risk_df, entryVars>>

InitCalendar ==
    /\ pc = "calendar"
    /\ cfg \in CalendarArguments
    /\ fleet_df = <<>>
    /\ task_df = <<>>
    /\ reports = {}
    /\ capacity_multiplier = 0
    /\ capacity_per_day = 0
    /\ forecast_df = <<>>
    /\ df = <<>>
    /\ cap = <<>>
    /\ ti = 0
    /\ d = 0
    /\ allocated = 0
    /\ allocations = <<>>
    /\ scheduled_rows = <<>>
    /\ today = 0
    /\ risk_df = <<>>

NextCalendar == BuildCalendar

SpecCalendar == InitCalendar /\ [][NextCalendar]_vars

---------------------------------------------------------------------------
(* Specification of the risk register over the results of the allocator and
   over any allocation results *)

InitRegister == Init \/ InitRisk

SpecRegister == InitRegister /\ [][Next]_vars

---------------------------------------------------------------------------
(* Claims *)

Rows == DOMAIN scheduled_rows

C2_AllocatedWithinRequired ==
    \A i \in Rows :
        /\ 0 <= scheduled_rows[i].allocated_labor_hours
        /\ scheduled_rows[i].allocated_labor_hours <= scheduled_rows[i].labor_hours

\* a run with a partial allocation and a full one
C2_Witness ==
    /\ pc = "done"
    /\ \E i \in Rows :
           /\ 0 < scheduled_rows[i].allocated_labor_hours
           /\ scheduled_rows[i].allocated_labor_hours < scheduled_rows[i].labor_hours
    /\ \E i \in Rows :
           /\ scheduled_rows[i].labor_hours > 0
           /\ scheduled_rows[i].allocated_labor_hours = scheduled_rows[i].labor_hours

\* C3: an allocation result is marked scheduled exactly when its allocated
\* hours equal its required hours; a result that falls short is unscheduled
\* and has no scheduled date.
C3_ScheduledIffFull ==
    \A i \in Rows :
        /\ scheduled_rows[i].scheduled
             <=> (scheduled_rows[i].allocated_labor_hours
                    = scheduled_rows[i].labor_hours)
        /\ scheduled_rows[i].allocated_labor_hours < scheduled_rows[i].labor_hours
             => /\ ~scheduled_rows[i].scheduled
                /\ scheduled_rows[i].scheduled_date = NaT

\* a run with a scheduled result and a partially allocated, unscheduled one
C3_Witness ==
    /\ pc = "done"
    /\ \E i \in Rows :
           /\ scheduled_rows[i].scheduled
           /\ scheduled_rows[i].scheduled_date # NaT
    /\ \E i \in Rows :
           /\ ~scheduled_rows[i].scheduled
           /\ scheduled_rows[i].allocated_labor_hours > 0

\* C4: schedule_tasks_greedy never aborts with an error, and when it returns
\* it has emitted exactly one allocation result per forecast entry.
C4_NeverAborts ==
    /\ pc # "IndexError"
    /\ pc = "done" =>
        /\ Len(scheduled_rows) = Len(forecast_df)
        /\ \A e \in DOMAIN forecast_df :
               \E i \in Rows : scheduled_rows[i].id = forecast_df[e].id

\* C5: a scheduled date that is set lies in the entry's window, and an entry
\* that got no hours from any slot of its window has no scheduled date.
C5_ScheduledDateInWindow ==
    \A i \in Rows :
        /\ scheduled_rows[i].scheduled_date # NaT =>
            /\ scheduled_rows[i].due_date - scheduled_rows[i].window_days
                 <= scheduled_rows[i].scheduled_date
            /\ scheduled_rows[i].scheduled_date <= scheduled_rows[i].due_date
        /\ scheduled_rows[i].allocated_labor_hours = 0 =>
               scheduled_rows[i].scheduled_date = NaT

\* a run with a result scheduled on a day of its window and a result that
\* found the slot of its one-day window exhausted
C5_Witness ==
    /\ pc = "done"
    /\ \E i \in Rows :
           /\ scheduled_rows[i].scheduled_date # NaT
           /\ scheduled_rows[i].scheduled_date <= scheduled_rows[i].due_date
    /\ \E i \in Rows :
           /\ scheduled_rows[i].allocated_labor_hours = 0
           /\ scheduled_rows[i].scheduled_date = NaT
           /\ <<scheduled_rows[i].base, scheduled_rows[i].due_date>> \in DOMAIN cap

\* the order the claim C6 states, written out
C6_Rank(x) ==
    IF x = "High" THEN 0 ELSE IF x = "Medium" THEN 1
    ELSE IF x = "Low" THEN 2 ELSE 3

C6_NotAfter(a, b) ==
    \/ a.due_date < b.due_date
    \/ /\ a.due_date = b.due_date
       /\ C6_Rank(a.criticality) < C6_Rank(b.criticality)
    \/ /\ a.due_date = b.due_date
       /\ C6_Rank(a.criticality) = C6_Rank(b.criticality)
       /\ a.labor_hours >= b.labor_hours

C6_SameSingleDay(a, b) ==
    /\ a.base = b.base
    /\ a.due_date = b.due_date
    /\ a.window_days = 0
    /\ b.window_days = 0
    /\ <<a.base, a.due_date>> \in DOMAIN cap

\* C6: entries are processed in the order (due date ascending, criticality
\* rank ascending, labor hours descending); of two entries that compete for
\* one day's capacity with a combined requirement above the budget, the one
\* first in this order is allocated first and the other one falls short.
C6_SortPolicyDecidesContention ==
    /\ pc # "start" =>
        /\ \A i, j \in DOMAIN df : i < j => C6_NotAfter(df[i], df[j])
        /\ \A i \in Rows : scheduled_rows[i].id = df[i].id
    /\ pc = "done" =>
        \A i, j \in Rows :
            (/\ i < j
             /\ C6_SameSingleDay(scheduled_rows[i], scheduled_rows[j])
             /\ scheduled_rows[i].labor_hours + scheduled_rows[j].labor_hours
                  > cap[<<scheduled_rows[i].base, scheduled_rows[i].due_date>>]
                        .capacity_labor_hours)
            => /\ scheduled_rows[j].allocated_labor_hours
                    < scheduled_rows[j].labor_hours
               /\ Len(scheduled_rows) = 2 =>
                      scheduled_rows[i].allocated_labor_hours
                        = Min(scheduled_rows[i].labor_hours,
                              cap[<<scheduled_rows[i].base,
                                    scheduled_rows[i].due_date>>]
                                  .capacity_labor_hours)

\* a Low entry listed before a Medium entry of the same day: the Medium one
\* is processed first and is scheduled, the Low one falls short
C6_Witness ==
    /\ pc = "done"
    /\ Len(forecast_df) = 2
    /\ forecast_df[1].criticality = "Low"
    /\ forecast_df[2].criticality = "Medium"
    /\ C6_SameSingleDay(forecast_df[1], forecast_df[2])
    /\ scheduled_rows[1].id = 2
    /\ scheduled_rows[1].scheduled
    /\ ~scheduled_rows[2].scheduled

HasRisk(type, row) ==
    \E k \in DOMAIN risk_df :
        risk_df[k].risk_type = type /\ risk_df[k].id = row.id

\* C7: the register holds a MISSED_WINDOW entry for a result exactly when
\* the result is unscheduled, and a LATE_SCHEDULE entry exactly when it is
\* scheduled with a scheduled date after its due date.
C7_MissedAndLateEntries ==
    pc = "risk" =>
        \A i \in Rows :
            /\ HasRisk("MISSED_WINDOW", scheduled_rows[i])
                 <=> ~scheduled_rows[i].scheduled
            /\ HasRisk("LATE_SCHEDULE", scheduled_rows[i])
                 <=> /\ scheduled_rows[i].scheduled
                     /\ scheduled_rows[i].scheduled_date # NaT
                     /\ scheduled_rows[i].scheduled_date
                          > scheduled_rows[i].due_date

\* a register built from an unscheduled result, a result scheduled late and a
\* result with a date after its due date that is not scheduled
C7_Witness ==
    /\ pc = "risk"
    /\ \E i, j \in Rows :
           /\ ~scheduled_rows[i].scheduled
           /\ scheduled_rows[i].scheduled_date # NaT
           /\ scheduled_rows[i].scheduled_date > scheduled_rows[i].due_date
           /\ scheduled_rows[j].scheduled
           /\ scheduled_rows[j].scheduled_date # NaT
           /\ scheduled_rows[j].scheduled_date > scheduled_rows[j].due_date
           /\ HasRisk("LATE_SCHEDULE", scheduled_rows[j])
           /\ HasRisk("MISSED_WINDOW", scheduled_rows[i])

C8_NotAfter(a, b) ==
    \/ C6_Rank(a.severity) < C6_Rank(b.severity)
    \/ /\ C6_Rank(a.severity) = C6_Rank(b.severity)
       /\ RiskTypeTextOrder(a.risk_type) < RiskTypeTextOrder(b.risk_type)
    \/ /\ C6_Rank(a.severity) = C6_Rank(b.severity)
       /\ a.risk_type = b.risk_type
       /\ a.due_date <= b.due_date

\* C8: the risk entries are ordered by criticality rank (High, Medium, Low,
\* unknown), then risk type, then due date ascending.
C8_OrderedByRank ==
    pc = "risk" =>
        \A i, j \in DOMAIN risk_df :
            i < j => C8_NotAfter(risk_df[i], risk_df[j])

\* C9: for every multiplier, zero and negative ones included, the daily
\* budget is the baseline times the multiplier, clamped to at least 1.
C9_BudgetClampedToOne ==
    pc = "run_done" =>
        capacity_per_day
          = Max(1, TruncInt(base_capacity_per_day * capacity_multiplier, 100))

HasReport(name, columns) ==
    \E r \in reports : r.name = name /\ r.columns = columns /\ r.rows = 0

\* C10: with an empty forecast the pipeline still writes every artifact in
\* empty form: the plan, the capacity usage and the risk register with its
\* fixed columns.
C10_EmptyArtifactsWritten ==
    (pc = "main_done" /\ forecast_df = <<>>) =>
        /\ HasReport("maintenance_plan.csv", PLAN_COLUMNS)
        /\ HasReport("capacity_calendar.csv", SUMMARY_COLUMNS)
        /\ HasReport("risk_register.csv", RISK_COLUMNS)

\* the condition under which a result is overdue on the as-of date
C11_DueBeforeAndNotMet(row) ==
    /\ row.due_date < today
    /\ \/ ~row.scheduled
       \/ row.scheduled_date # NaT /\ row.scheduled_date > row.due_date

\* an entry of the allocator due before the forecast start (day 0) that
\* received no hours
C11_DueBeforeStartNoCapacity(row) ==
    /\ forecast_df # <<>>
    /\ row.due_date < 0
    /\ row.allocated_labor_hours = 0

\* C11: the register holds an OVERDUE entry for a result exactly when the
\* result is due strictly before the as-of date and is either unscheduled or
\* scheduled after its due date; an entry due before the forecast start that
\* found no capacity in its window has both an OVERDUE and a MISSED_WINDOW
\* entry.
C11_OverdueEntries ==
    pc = "risk" =>
        \A i \in Rows :
            /\ HasRisk("OVERDUE", scheduled_rows[i])
                  <=> C11_DueBeforeAndNotMet(scheduled_rows[i])
            /\ C11_DueBeforeStartNoCapacity(scheduled_rows[i]) =>
                  /\ HasRisk("OVERDUE", scheduled_rows[i])
                  /\ HasRisk("MISSED_WINDOW", scheduled_rows[i])

C11_Witness ==
    /\ pc = "risk"
    /\ \E i \in Rows :
          /\ C11_DueBeforeStartNoCapacity(scheduled_rows[i])
          /\ HasRisk("OVERDUE", scheduled_rows[i])
          /\ HasRisk("MISSED_WINDOW", scheduled_rows[i])

\* the hours left in the slots of a base over the days from .. to
RECURSIVE C12_RemainingOver(_, _, _)
C12_RemainingOver(base, from, to) ==
    IF from > to THEN 0
    ELSE (IF <<base, from>> \in DOMAIN cap
          THEN cap[<<base, from>>].remaining_labor_hours
          ELSE 0)
         + C12_RemainingOver(base, from + 1, to)

\* the hours that were left in the window of the current entry when its scan
\* began: what is left now and what the entry has taken
C12_AvailableAtStart ==
    allocated + C12_RemainingOver(df[ti].base,
                                  df[ti].due_date - df[ti].window_days,
                                  df[ti].due_date)

\* the register holds both shortfall entries of every result that is short,
\* and a CAPACITY_SHORTFALL entry of no other result
C12_Register ==
    pc = "risk" =>
        \A i \in Rows :
            LET row == scheduled_rows[i]
                short == row.allocated_labor_hours < row.labor_hours
            IN  /\ HasRisk("CAPACITY_SHORTFALL", row) <=> short
                /\ short => HasRisk("MISSED_WINDOW", row)

\* C12: an entry whose window at its base holds, when the entry is
\* processed, fewer remaining hours than it requires is emitted with fewer
\* hours than required, emitted results are never changed, and the register
\* built from the results holds a CAPACITY_SHORTFALL and a MISSED_WINDOW
\* entry for every result with allocated < required, and a
\* CAPACITY_SHORTFALL entry for no other result.
C12_ShortfallEndToEnd ==
    [][/\ \A i \in Rows :
              i \in DOMAIN scheduled_rows' /\ scheduled_rows'[i] = scheduled_rows[i]
       /\ (pc = "finish" /\ pc' # "IndexError") =>
              LET row == scheduled_rows'[Len(scheduled_rows')]
              IN  /\ Len(scheduled_rows') = Len(scheduled_rows) + 1
                  /\ row.id = df[ti].id
                  /\ C12_AvailableAtStart < df[ti].labor_hours =>
                        row.allocated_labor_hours < row.labor_hours
       /\ C12_Register']_vars

C12_Witness ==
    /\ pc = "risk"
    /\ \E i \in Rows :
          /\ scheduled_rows[i].allocated_labor_hours > 0
          /\ scheduled_rows[i].allocated_labor_hours < scheduled_rows[i].labor_hours
          /\ HasRisk("CAPACITY_SHORTFALL", scheduled_rows[i])
          /\ HasRisk("MISSED_WINDOW", scheduled_rows[i])

\* C13: in the register built from the allocator's results, for any as-of
\* date, no entry of any type belongs to a result the allocator marked
\* scheduled, and the register of a plan whose results are all scheduled is
\* empty.
C13_ScheduledYieldsNoRisk ==
    pc = "risk" =>
        /\ \A i \in Rows :
              scheduled_rows[i].scheduled =>
                  \A k \in DOMAIN risk_df : risk_df[k].id # scheduled_rows[i].id
        /\ (\A i \in Rows : scheduled_rows[i].scheduled) => risk_df = <<>>

C13_Witness ==
    /\ pc = "risk"
    /\ Len(scheduled_rows) = MaxTasks
    /\ \A i \in Rows : scheduled_rows[i].scheduled
    /\ \E i \in Rows : scheduled_rows[i].due_date < today
    /\ risk_df = <<>>

\* the due date of the pair (aircraft row i, task row j): last performed
\* plus interval
C14_Due(i, j) ==
    DueDate(i, j, task_df[j + 1].interval_days, cfg.start_date,
            cfg.seed_history)

\* the pairs whose fleet types match
C14_Matching ==
    {p \in (0 .. (Len(fleet_df) - 1)) \X (0 .. (Len(task_df) - 1)) :
        fleet_df[p[1] + 1].fleet_type = task_df[p[2] + 1].fleet_type}

\* the matching pairs due on or before start + horizon
C14_Pairs ==
    {p \in C14_Matching :
        C14_Due(p[1], p[2]) <= cfg.start_date + cfg.horizon_days}

\* C14: the forecast holds exactly one entry for every pair of an aircraft
\* and a task definition of the same fleet type whose due date is on or
\* before start + horizon, each with that due date, and no other entry;
\* pairs due before the start are among them.
C14_ExactlyTheDuePairs ==
    pc = "forecast_done" =>
        /\ {forecast_df[k].id : k \in DOMAIN forecast_df} = C14_Pairs
        /\ Len(forecast_df) = Cardinality(C14_Pairs)
        /\ \A k \in DOMAIN forecast_df :
              forecast_df[k].due_date
                = C14_Due(forecast_df[k].id[1], forecast_df[k].id[2])

C14_Witness ==
    /\ pc = "forecast_done"
    /\ \E k \in DOMAIN forecast_df : forecast_df[k].due_date < cfg.start_date
    /\ Cardinality(C14_Pairs) < Cardinality(C14_Matching)
    /\ \E i \in DOMAIN fleet_df :
          \A p \in C14_Matching : p[1] + 1 # i

\* C15: the calendar holds a slot for exactly the pairs of a given base and
\* a day from start_date to start_date + horizon_days, both included, which
\* makes horizon_days + 1 slots for each base, every slot with the daily
\* budget as capacity and 0 used hours; with no base the calendar is empty.
C15_OneSlotPerBaseAndDay ==
    pc = "calendar_done" =>
        /\ DOMAIN cap
             = {k \in cfg.bases \X ((0 - 1) .. (Horizon + 2)) :
                   /\ k[2] >= cfg.start_date
                   /\ k[2] <= cfg.start_date + cfg.horizon_days}
        /\ \A b \in cfg.bases :
              Cardinality({k \in DOMAIN cap : k[1] = b}) = cfg.horizon_days + 1
        /\ \A k \in DOMAIN cap :
              /\ cap[k].capacity_labor_hours = cfg.labor_hours_per_day
              /\ cap[k].used_labor_hours = 0
        /\ cfg.bases = {} => DOMAIN cap = {}

C15_Witness ==
    /\ pc = "calendar_done"
    /\ cfg.bases = Bases
    /\ cfg.horizon_days = Horizon
    /\ Cardinality(DOMAIN cap) = Cardinality(Bases) * (Horizon + 1)

\* a step of the scan records an allocation exactly when it takes hours from
\* the slot of the scanned day, as the pair of that day and the hours taken
C17_AllocationsRecorded ==
    pc = "scan" =>
        IF cap' = cap
        THEN allocations' = allocations
        ELSE LET key == <<df[ti].base, d>>
                 hours == cap'[key].used_labor_hours - cap[key].used_labor_hours
             IN  /\ hours > 0
                 /\ allocations' = Append(allocations, <<d, hours>>)

\* C17: the scheduled date of every result emitted as scheduled is the
\* latest day on which hours were taken for the entry: hours were taken on
\* that day, and on no later day.
C17_ScheduledOnLastAllocationDay ==
    [][/\ C17_AllocationsRecorded
       /\ (pc = "finish" /\ pc' # "IndexError") =>
              LET row == scheduled_rows'[Len(scheduled_rows')]
              IN  row.scheduled =>
                    /\ \E k \in DOMAIN allocations :
                          allocations[k][1] = row.scheduled_date
                    /\ \A k \in DOMAIN allocations :
                          allocations[k][1] <= row.scheduled_date]_vars

\* the last entry was scheduled with hours of two days, on the later one
C17_Witness ==
    /\ pc = "return"
    /\ Len(allocations) = 2
    /\ allocations[1][1] < allocations[2][1]
    /\ scheduled_rows[Len(scheduled_rows)].scheduled
    /\ scheduled_rows[Len(scheduled_rows)].scheduled_date = allocations[2][1]

\* C18: no step of the allocator removes a capacity slot or lowers the used
\* hours of one; what an entry has taken, scheduled or not, stays taken.
C18_UsedHoursNeverDecrease ==
    [][\A k \in DOMAIN cap :
          /\ k \in DOMAIN cap'
          /\ cap'[k].used_labor_hours >= cap[k].used_labor_hours]_vars

\* an entry left unscheduled kept the hours it took, and a later entry at
\* the same base fell short
C18_Witness ==
    /\ pc = "done"
    /\ \E i, j \in Rows :
          /\ i < j
          /\ scheduled_rows[i].base = scheduled_rows[j].base
          /\ ~scheduled_rows[i].scheduled
          /\ scheduled_rows[i].allocated_labor_hours > 0
          /\ scheduled_rows[j].allocated_labor_hours < scheduled_rows[j].labor_hours
    /\ \E k \in DOMAIN cap : cap[k].used_labor_hours > 0

\* the slot k lies at the base of the entry and within its window
C19_InWindow(k, task) ==
    /\ k[1] = task.base
    /\ k[2] >= task.due_date - task.window_days
    /\ k[2] <= task.due_date

\* C19: while an entry is processed, every step leaves every slot at another
\* base or on a day outside [due_date - window_days, due_date] as it was.
C19_OnlyWindowSlotsChange ==
    [][(pc = "scan" \/ pc = "finish") =>
          \A k \in DOMAIN cap :
              ~C19_InWindow(k, df[ti]) =>
                  k \in DOMAIN cap' /\ cap'[k] = cap[k]]_vars

\* the one entry of the plan took hours, and the slots after its due date
\* and at the other bases are unused
C19_Witness ==
    /\ pc = "return"
    /\ Len(scheduled_rows) = 1
    /\ scheduled_rows[1].allocated_labor_hours > 0
    /\ \E k \in DOMAIN cap :
          k[1] = scheduled_rows[1].base /\ k[2] > scheduled_rows[1].due_date
    /\ \E k \in DOMAIN cap : k[1] # scheduled_rows[1].base
    /\ \A k \in DOMAIN cap :
          ~C19_InWindow(k, scheduled_rows[1]) => cap[k].used_labor_hours = 0

\* when the scan of an entry that took hours has ended: every slot of its
\* base on a window day before the last day it took hours from is used up,
\* and if the requirement is met the scan stands on that last day
C20_AfterEntry ==
    (pc = "finish" /\ allocations # <<>>) =>
        LET task == df[ti]
            last == allocations[Len(allocations)][1]
        IN  /\ \A x \in (task.due_date - task.window_days) .. (last - 1) :
                  <<task.base, x>> \in DOMAIN cap =>
                      cap[<<task.base, x>>].remaining_labor_hours = 0
            /\ allocated >= task.labor_hours => d = last

\* C20: the window of an entry is walked forwards, a step changes no slot
\* but the one of the day the scan stands on, and when the scan has ended
\* every existing slot of the entry's base on a window day before the last
\* contributing day has no hours left, and for a met requirement the scan
\* never went past the last contributing day, so no later slot was changed.
C20_EarliestFirstUntilMet ==
    [][/\ pc = "scan" =>
              /\ d' >= d
              /\ \A k \in DOMAIN cap :
                    k # <<df[ti].base, d>> =>
                        k \in DOMAIN cap' /\ cap'[k] = cap[k]
       /\ C20_AfterEntry']_vars

\* a met requirement filled from two days, the first of them used up
C20_Witness ==
    /\ pc = "finish"
    /\ Len(allocations) = 2
    /\ allocated >= df[ti].labor_hours
    /\ cap[<<df[ti].base, allocations[1][1]>>].remaining_labor_hours = 0
    /\ d = allocations[2][1]

\* the used hours of the slots of a set of keys
RECURSIVE C21_UsedOver(_)
C21_UsedOver(keys) ==
    IF keys = {} THEN 0
    ELSE LET k == CHOOSE x \in keys : TRUE
         IN  cap[k].used_labor_hours + C21_UsedOver(keys \ {k})

\* the used hours of all slots of a base
C21_UsedAt(base) == C21_UsedOver({k \in DOMAIN cap : k[1] = base})

\* the hours the first n results credit to entries of a base
RECURSIVE C21_AllocatedAt(_, _)
C21_AllocatedAt(base, n) ==
    IF n = 0 THEN 0
    ELSE (IF scheduled_rows[n].base = base
          THEN scheduled_rows[n].allocated_labor_hours
          ELSE 0)
         + C21_AllocatedAt(base, n - 1)

\* C21: when the allocator, started on a calendar with no used hours, has
\* emitted its last result, the used hours of the slots of every base add up
\* to the allocated hours of the results at that base, the hours kept by
\* unscheduled results included.
C21_HoursConserved ==
    pc \in {"return", "done", "risk"} =>
        \A b \in Bases :
            C21_UsedAt(b) = C21_AllocatedAt(b, Len(scheduled_rows))

\* a base at which an unscheduled result kept hours and another result was
\* scheduled
C21_Witness ==
    /\ pc = "done"
    /\ \E i, j \in Rows :
          /\ scheduled_rows[i].base = scheduled_rows[j].base
          /\ ~scheduled_rows[i].scheduled
          /\ scheduled_rows[i].allocated_labor_hours > 0
          /\ scheduled_rows[j].scheduled
          /\ C21_UsedAt(scheduled_rows[i].base)
                = scheduled_rows[i].allocated_labor_hours
                    + scheduled_rows[j].allocated_labor_hours

\* the seeded due date the claim states for aircraft row i, task row j
C22_SeededDue(i, j, interval) ==
    IF interval >= 2
    THEN cfg.start_date + ((7 * i + 3 * j) % Max(2, interval))
    ELSE cfg.start_date

\* C22: in seed mode, for every aircraft row i and task row j with an
\* interval of 1 day or more, the computed due date is
\* start + ((7i + 3j) mod max(2, interval)) for an interval of 2 or more and
\* start for an interval of 1, hence from start to start + interval - 1;
\* every entry of the forecast carries that date and none is due before the
\* start.
C22_SeededDueDate ==
    (pc = "forecast_done" /\ cfg.seed_history) =>
        /\ \A i \in 0 .. (Len(fleet_df) - 1), j \in 0 .. (Len(task_df) - 1) :
              LET interval == task_df[j + 1].interval_days
                  due == DueDate(i, j, interval, cfg.start_date,
                                 cfg.seed_history)
              IN  interval >= 1 =>
                    /\ due = C22_SeededDue(i, j, interval)
                    /\ cfg.start_date <= due
                    /\ due <= cfg.start_date + interval - 1
        /\ \A k \in DOMAIN forecast_df :
              LET i == forecast_df[k].id[1]
                  j == forecast_df[k].id[2]
                  interval == task_df[j + 1].interval_days
              IN  interval >= 1 =>
                    /\ forecast_df[k].due_date = C22_SeededDue(i, j, interval)
                    /\ forecast_df[k].due_date >= cfg.start_date

\* a seeded forecast with an entry of interval 1 due on the start and an
\* entry of a longer interval due after it
C22_Witness ==
    /\ pc = "forecast_done"
    /\ cfg.seed_history
    /\ \E k \in DOMAIN forecast_df :
          /\ task_df[forecast_df[k].id[2] + 1].interval_days = 1
          /\ forecast_df[k].id # <<0, 0>>
          /\ forecast_df[k].due_date = cfg.start_date
    /\ \E k \in DOMAIN forecast_df :
          /\ task_df[forecast_df[k].id[2] + 1].interval_days >= 2
          /\ forecast_df[k].due_date > cfg.start_date

====
